---- MODULE Spec2Model ----
(***************************************************************************)
(* The application lifecycle of adt-domain-poc.                            *)
(*                                                                         *)
(* The repository holds three drafts of the same state machine:            *)
(*   - src/unnamed/part_000 : the event catalog, the reducer `apply` and   *)
(*     the value-returning typestate entity built on its apply* helpers;   *)
(*   - src/src/poc-reducer.ts lines 1-376 : the reducer `reduce` and the   *)
(*     mutable `Root` that dispatches into it (definitions suffixed R      *)
(*     where a name clashes with part_000);                                *)
(*   - src/src/poc-reducer.ts lines 379-622 : the value-returning          *)
(*     typestate entity without a reducer (definitions suffixed V).        *)
(*                                                                         *)
(* A JavaScript object is a record.  The spread `{...o, f: v}` is          *)
(* Override(o, "f", v).  The function-valued members an entity carries are *)
(* the record field `methods`, which maps each member's name to the        *)
(* builder whose closure it is; an object without function members has no  *)
(* `methods` field.                                                        *)
(***************************************************************************)
EXTENDS Integers, Sequences, FiniteSets, TLC

(* ------------------------------ bounds --------------------------------- *)

\* How many distinct uuids the persisted snapshots and the events draw from.
NumUuids == 3

\* The callers that reconstruct an entity from the same persisted DbState.
NumCallers == 2
CallerNames == <<"c1", "c2", "c3">>
Callers == {CallerNames[i] : i \in 1..NumCallers}

UuidNames == <<"u1", "u2", "u3", "u4", "u5">>

Uuids == {UuidNames[i] : i \in 1..NumUuids}

(* ------------------- ./common (not part of src/) ----------------------- *)

AppStatus == {"New", "Active", "Deleted", "Corrupted"}

InfrastructureStatus == {"NotSelected", "Selected"}

InfrastructureProvider == {"AWS", "AZURE"}

AwsRegion == {"us-east-1"}

\* The value read from an optional property that is absent.
Undefined == "undefined"

\* DbState: infrastructureProvider is optional.
DbStates ==
    [uuid : Uuids,
     status : AppStatus,
     infrastructureStatus : InfrastructureStatus,
     infrastructureProvider : InfrastructureProvider \cup {Undefined}]

\* The run-time values of the providers: InfrastructureProvider is a numeric
\* enum, as the enums the two files declare themselves are, so its first member
\* is 0.
InfrastructureProviderValue == [AWS |-> 0, AZURE |-> 1]

\* JavaScript truthiness of an optional provider: an absent provider is falsy,
\* and so is the provider whose value is 0.
Truthy(v) == v # Undefined /\ InfrastructureProviderValue[v] # 0

(* -------------------------- object helpers ----------------------------- *)

\* {...r, f: v}
Override(r, f, v) == [k \in DOMAIN r \cup {f} |-> IF k = f THEN v ELSE r[k]]

\* The data properties of an entity: what the closures of its builder hold
\* as `state`.
Fields(v) == [k \in DOMAIN v \ {"methods"} |-> v[k]]

\* The names of the operations an entity exposes.
Ops(v) == IF "methods" \in DOMAIN v THEN DOMAIN v.methods ELSE {}

\* The snapshot an entity wraps.
Snapshot(v) == [k \in DOMAIN v \cap {"uuid", "status", "infrastructure"} |-> v[k]]

\* The outcome of a call: a returned value or a thrown error.
Return(v) == [threw |-> FALSE, value |-> v]

Throw(m) == [threw |-> TRUE, error |-> m]

(* --------------- event catalog: src/unnamed/part_000 ------------------- *)

AppCreated(u) == [type |-> "AppCreated", payload |-> [uuid |-> u]]

ExistingInfrastructureSelected(u, p) ==
    [type |-> "ExistingInfrastructureSelected",
     payload |-> [uuid |-> u, infrastructureProvider |-> p]]

BuildRequestedAws(u, r) ==
    [type |-> "BuildRequested",
     payload |-> [uuid |-> u, infrastructureProvider |-> "AWS", region |-> r]]

BuildRequestedAzure(u) ==
    [type |-> "BuildRequested",
     payload |-> [uuid |-> u, infrastructureProvider |-> "AZURE"]]

AppActivated(u) == [type |-> "AppActivated", payload |-> [uuid |-> u]]

AppDeleted(u) == [type |-> "AppDeleted", payload |-> [uuid |-> u]]

AppDomainEvent ==
    {AppCreated(u) : u \in Uuids}
    \cup {AppActivated(u) : u \in Uuids}
    \cup {ExistingInfrastructureSelected(u, p) : u \in Uuids, p \in InfrastructureProvider}
    \cup {AppDeleted(u) : u \in Uuids}
    \cup {BuildRequestedAws(u, r) : u \in Uuids, r \in AwsRegion}
    \cup {BuildRequestedAzure(u) : u \in Uuids}

(* ------------------- reducer: src/unnamed/part_000 --------------------- *)

\* Reading app.infrastructure.status throws a TypeError when the object has
\* no infrastructure property.
HasInfrastructure(app) == "infrastructure" \in DOMAIN app

isNew(app) ==
    app.status = "New" /\ app.infrastructure.status = "NotSelected"

\* Mutant of isNewState: the infrastructure is not looked at.
isNewStateMutC22(app) == app.status = "New"

isNewState(app) ==
    app.status = "New" /\ app.infrastructure.status = "NotSelected"

\* Mutant of isNotActivatedState: the infrastructure is not looked at.
isNotActivatedStateMutC12(app) == app.status = "New"

isNotActivatedState(app) ==
    app.status = "New" /\ app.infrastructure.status = "Selected"

isActiveState(app) == app.status = "Active"

applyExistingInfrastructureSelected(state, event) ==
    Override(state, "infrastructure",
             [status |-> "Selected", type |-> event.payload.infrastructureProvider])

\* Mutant of applyAppDeleted: the deletion also forgets the infrastructure.
applyAppDeletedMutC2(state, event) ==
    Override(Override(state, "status", "Deleted"),
             "infrastructure", [status |-> "NotSelected"])

applyAppDeleted(state, event) == Override(state, "status", "Deleted")

applyAppActivated(state, event) == Override(state, "status", "Active")

\* The stub throws on every call.
checkInvariants(state) == Throw("Not implemented")

\* Mutant of apply: an illegal ExistingInfrastructureSelected is ignored.
applyMutC1(state, event) ==
    CASE event.type = "ExistingInfrastructureSelected" ->
            IF isNewState(state)
            THEN applyExistingInfrastructureSelected(state, event)
            ELSE state
      [] event.type = "AppDeleted" ->
            IF isNotActivatedState(state) \/ isNewState(state) \/ isActiveState(state)
            THEN applyAppDeleted(state, event)
            ELSE Override(state, "status", "Corrupted")
      [] event.type = "AppActivated" ->
            IF isNotActivatedState(state)
            THEN applyAppActivated(state, event)
            ELSE Override(state, "status", "Corrupted")
      [] OTHER -> state

\* Mutant of apply: AppCreated starts the snapshot over, as reduce does.
applyMutC6(state, event) ==
    CASE event.type = "AppCreated" ->
            [uuid |-> state.uuid,
             status |-> "New",
             infrastructure |-> [status |-> "NotSelected"]]
      [] event.type = "ExistingInfrastructureSelected" ->
            IF isNewState(state)
            THEN applyExistingInfrastructureSelected(state, event)
            ELSE Override(state, "status", "Corrupted")
      [] event.type = "AppDeleted" ->
            IF isNotActivatedState(state) \/ isNewState(state) \/ isActiveState(state)
            THEN applyAppDeleted(state, event)
            ELSE Override(state, "status", "Corrupted")
      [] event.type = "AppActivated" ->
            IF isNotActivatedState(state)
            THEN applyAppActivated(state, event)
            ELSE Override(state, "status", "Corrupted")
      [] OTHER -> state

apply(state, event) ==
    CASE event.type = "ExistingInfrastructureSelected" ->
            IF isNewState(state)
            THEN applyExistingInfrastructureSelected(state, event)
            ELSE Override(state, "status", "Corrupted")
      [] event.type = "AppDeleted" ->
            IF isNotActivatedState(state) \/ isNewState(state) \/ isActiveState(state)
            THEN applyAppDeleted(state, event)
            ELSE Override(state, "status", "Corrupted")
      [] event.type = "AppActivated" ->
            IF isNotActivatedState(state)
            THEN applyAppActivated(state, event)
            ELSE Override(state, "status", "Corrupted")
      [] OTHER -> state

\* Whether apply(state, event) throws: the only throwing step is the read of
\* state.infrastructure.status, reached when status is New.
applyThrows(state, event) ==
    /\ event.type \in {"ExistingInfrastructureSelected", "AppDeleted", "AppActivated"}
    /\ state.status = "New"
    /\ ~HasInfrastructure(state)

(* ------------- typestate entity: src/unnamed/part_000 ------------------ *)

buildDeleted(state) == state

buildActive(state) == Override(state, "methods", [delete |-> "buildActive"])

buildNotActivated(state) ==
    Override(state, "methods",
             [activate |-> "buildNotActivated", delete |-> "buildNotActivated"])

buildNew(state) ==
    Override(state, "methods",
             [selectInfrastructure |-> "buildNew", delete |-> "buildNew"])

\* What a method has computed when it reaches the invariant check: the event it
\* constructed and the next snapshot.
\* buildNew(state).selectInfrastructure(type), up to the check
New_selectInfrastructureStep(state, type) ==
    LET event == ExistingInfrastructureSelected(state.uuid, type)
    IN  [event |-> event,
         newState |-> applyExistingInfrastructureSelected(state, event)]

\* buildNew(state).delete(), up to the check
New_deleteStep(state) ==
    LET event == AppDeleted(state.uuid)
    IN  [event |-> event, newState |-> applyAppDeleted(state, event)]

\* buildNotActivated(state).activate(), up to the check
NotActivated_activateStep(state) ==
    LET event == AppActivated(state.uuid)
    IN  [event |-> event, newState |-> applyAppActivated(state, event)]

\* buildNotActivated(state).delete(), up to the check
NotActivated_deleteStep(state) ==
    LET event == AppDeleted(state.uuid)
    IN  [event |-> event, newState |-> applyAppDeleted(state, event)]

\* Mutant of Active_deleteStep: the Active entity computes its next snapshot
\* with the activation transition.
Active_deleteStepMutC20(state) ==
    LET event == AppDeleted(state.uuid)
    IN  [event |-> event, newState |-> applyAppActivated(state, event)]

\* buildActive(state).delete(), up to the check
Active_deleteStep(state) ==
    LET event == AppDeleted(state.uuid)
    IN  [event |-> event, newState |-> applyAppDeleted(state, event)]

\* buildNew(state).selectInfrastructure(type)
New_selectInfrastructure(state, type) ==
    LET step == New_selectInfrastructureStep(state, type)
        checked == checkInvariants(step.newState)
    IN  IF checked.threw
        THEN checked
        ELSE Return(buildNotActivated(
                 Override(step.newState, "dispatchedEvents", <<step.event>>)))

\* buildNew(state).delete()
New_delete(state) ==
    LET step == New_deleteStep(state)
        checked == checkInvariants(step.newState)
    IN  IF checked.threw
        THEN checked
        ELSE Return(buildDeleted(
                 Override(step.newState, "dispatchedEvents", <<step.event>>)))

\* buildNotActivated(state).activate()
NotActivated_activate(state) ==
    LET step == NotActivated_activateStep(state)
        checked == checkInvariants(step.newState)
    IN  IF checked.threw
        THEN checked
        ELSE Return(buildActive(
                 Override(step.newState, "dispatchedEvents", <<step.event>>)))

\* buildNotActivated(state).delete()
NotActivated_delete(state) ==
    LET step == NotActivated_deleteStep(state)
        checked == checkInvariants(step.newState)
    IN  IF checked.threw
        THEN checked
        ELSE Return(buildDeleted(
                 Override(step.newState, "dispatchedEvents", <<step.event>>)))

\* buildActive(state).delete()
Active_delete(state) ==
    LET step == Active_deleteStep(state)
        checked == checkInvariants(step.newState)
    IN  IF checked.threw
        THEN checked
        ELSE Return(buildDeleted(
                 Override(step.newState, "dispatchedEvents", <<step.event>>)))

\* Mutant of mapDbState: a Deleted snapshot with a provider is rebuilt with
\* that provider whatever its infrastructureStatus.
mapDbStateMutC11(dbState) ==
    IF dbState.status = "New" /\ dbState.infrastructureStatus = "NotSelected"
    THEN buildNew([dispatchedEvents |-> <<>>,
                   uuid |-> dbState.uuid,
                   status |-> dbState.status,
                   infrastructure |-> [status |-> dbState.infrastructureStatus]])
    ELSE IF /\ dbState.status = "New"
            /\ dbState.infrastructureStatus = "Selected"
            /\ Truthy(dbState.infrastructureProvider)
    THEN buildNotActivated([dispatchedEvents |-> <<>>,
                            uuid |-> dbState.uuid,
                            status |-> dbState.status,
                            infrastructure |-> [status |-> dbState.infrastructureStatus,
                                                type |-> dbState.infrastructureProvider]])
    ELSE IF /\ dbState.status = "Active"
            /\ dbState.infrastructureStatus = "Selected"
            /\ Truthy(dbState.infrastructureProvider)
    THEN buildActive([dispatchedEvents |-> <<>>,
                      uuid |-> dbState.uuid,
                      status |-> dbState.status,
                      infrastructure |-> [status |-> dbState.infrastructureStatus,
                                          type |-> dbState.infrastructureProvider]])
    ELSE IF /\ dbState.status = "Deleted"
            /\ Truthy(dbState.infrastructureProvider)
    THEN buildDeleted([dispatchedEvents |-> <<>>,
                       uuid |-> dbState.uuid,
                       status |-> dbState.status,
                       infrastructure |-> [status |-> dbState.infrastructureStatus,
                                           type |-> dbState.infrastructureProvider]])
    ELSE IF /\ dbState.status = "Deleted"
            /\ dbState.infrastructureStatus = "NotSelected"
    THEN buildDeleted([dispatchedEvents |-> <<>>,
                       uuid |-> dbState.uuid,
                       status |-> dbState.status,
                       infrastructure |-> [status |-> dbState.infrastructureStatus]])
    ELSE [dispatchedEvents |-> <<>>,
          uuid |-> dbState.uuid,
          status |-> "Corrupted"]

mapDbState(dbState) ==
    IF dbState.status = "New" /\ dbState.infrastructureStatus = "NotSelected"
    THEN buildNew([dispatchedEvents |-> <<>>,
                   uuid |-> dbState.uuid,
                   status |-> dbState.status,
                   infrastructure |-> [status |-> dbState.infrastructureStatus]])
    ELSE IF /\ dbState.status = "New"
            /\ dbState.infrastructureStatus = "Selected"
            /\ Truthy(dbState.infrastructureProvider)
    THEN buildNotActivated([dispatchedEvents |-> <<>>,
                            uuid |-> dbState.uuid,
                            status |-> dbState.status,
                            infrastructure |-> [status |-> dbState.infrastructureStatus,
                                                type |-> dbState.infrastructureProvider]])
    ELSE IF /\ dbState.status = "Active"
            /\ dbState.infrastructureStatus = "Selected"
            /\ Truthy(dbState.infrastructureProvider)
    THEN buildActive([dispatchedEvents |-> <<>>,
                      uuid |-> dbState.uuid,
                      status |-> dbState.status,
                      infrastructure |-> [status |-> dbState.infrastructureStatus,
                                          type |-> dbState.infrastructureProvider]])
    ELSE IF /\ dbState.status = "Deleted"
            /\ dbState.infrastructureStatus = "Selected"
            /\ Truthy(dbState.infrastructureProvider)
    THEN buildDeleted([dispatchedEvents |-> <<>>,
                       uuid |-> dbState.uuid,
                       status |-> dbState.status,
                       infrastructure |-> [status |-> dbState.infrastructureStatus,
                                           type |-> dbState.infrastructureProvider]])
    ELSE IF /\ dbState.status = "Deleted"
            /\ dbState.infrastructureStatus = "NotSelected"
    THEN buildDeleted([dispatchedEvents |-> <<>>,
                       uuid |-> dbState.uuid,
                       status |-> dbState.status,
                       infrastructure |-> [status |-> dbState.infrastructureStatus]])
    ELSE [dispatchedEvents |-> <<>>,
          uuid |-> dbState.uuid,
          status |-> "Corrupted"]

(* --------- reducer and reconstruction: src/src/poc-reducer.ts ---------- *)

isNewStateR(app) ==
    app.status = "New" /\ app.infrastructure.status = "NotSelected"

isNotActivatedStateR(app) ==
    app.status = "New" /\ app.infrastructure.status = "Selected"

isActiveStateR(app) ==
    app.status = "Active" /\ app.infrastructure.status = "Selected"

isDeletedState(app) == app.status = "Deleted"

mapNewState(props) ==
    IF props.status = "New" /\ props.infrastructureStatus = "NotSelected"
    THEN [uuid |-> props.uuid,
          status |-> props.status,
          infrastructure |-> [status |-> props.infrastructureStatus]]
    ELSE IF /\ props.status = "New"
            /\ props.infrastructureStatus = "Selected"
            /\ Truthy(props.infrastructureProvider)
    THEN [uuid |-> props.uuid,
          status |-> props.status,
          infrastructure |-> [status |-> props.infrastructureStatus,
                              type |-> props.infrastructureProvider]]
    ELSE IF /\ props.status = "Active"
            /\ props.infrastructureStatus = "Selected"
            /\ Truthy(props.infrastructureProvider)
    THEN [uuid |-> props.uuid,
          status |-> props.status,
          infrastructure |-> [status |-> props.infrastructureStatus,
                              type |-> props.infrastructureProvider]]
    ELSE IF /\ props.status = "Deleted"
            /\ Truthy(props.infrastructureProvider)
            /\ props.infrastructureStatus = "Selected"
    THEN [uuid |-> props.uuid,
          status |-> props.status,
          infrastructure |-> [status |-> props.infrastructureStatus,
                              type |-> props.infrastructureProvider]]
    ELSE IF /\ props.status = "Deleted"
            /\ props.infrastructureStatus = "NotSelected"
    THEN [uuid |-> props.uuid,
          status |-> props.status,
          infrastructure |-> [status |-> props.infrastructureStatus]]
    ELSE [uuid |-> props.uuid, status |-> "Corrupted"]

\* Mutant of reduce: BuildRequested is handled like
\* ExistingInfrastructureSelected.
reduceMutC14(state, event) ==
    CASE event.type = "AppCreated" ->
            [uuid |-> event.payload.uuid,
             status |-> "New",
             infrastructure |-> [status |-> "NotSelected"]]
      [] event.type = "ExistingInfrastructureSelected" ->
            IF isNewStateR(state)
            THEN Override(state, "infrastructure",
                          [status |-> "Selected",
                           type |-> event.payload.infrastructureProvider])
            ELSE Override(state, "status", "Corrupted")
      [] event.type = "AppActivated" ->
            IF isNotActivatedStateR(state)
            THEN Override(state, "status", "Active")
            ELSE Override(state, "status", "Corrupted")
      [] event.type = "AppDeleted" ->
            IF isDeletedState(state)
            THEN Override(state, "status", "Deleted")
            ELSE Override(state, "status", "Corrupted")
      [] event.type = "BuildRequested" ->
            IF isNewStateR(state)
            THEN Override(state, "infrastructure",
                          [status |-> "Selected",
                           type |-> event.payload.infrastructureProvider])
            ELSE Override(state, "status", "Corrupted")
      [] OTHER -> state

reduce(state, event) ==
    CASE event.type = "AppCreated" ->
            [uuid |-> event.payload.uuid,
             status |-> "New",
             infrastructure |-> [status |-> "NotSelected"]]
      [] event.type = "ExistingInfrastructureSelected" ->
            IF isNewStateR(state)
            THEN Override(state, "infrastructure",
                          [status |-> "Selected",
                           type |-> event.payload.infrastructureProvider])
            ELSE Override(state, "status", "Corrupted")
      [] event.type = "AppActivated" ->
            IF isNotActivatedStateR(state)
            THEN Override(state, "status", "Active")
            ELSE Override(state, "status", "Corrupted")
      [] event.type = "AppDeleted" ->
            IF isDeletedState(state)
            THEN Override(state, "status", "Deleted")
            ELSE Override(state, "status", "Corrupted")
      [] OTHER -> state

\* Whether reduce(state, event) throws: isNewStateR and isNotActivatedStateR
\* read state.infrastructure.status when status is New.
reduceThrows(state, event) ==
    /\ event.type \in {"ExistingInfrastructureSelected", "AppActivated"}
    /\ state.status = "New"
    /\ ~HasInfrastructure(state)

(* ------------- the Root class: src/src/poc-reducer.ts ------------------ *)

\* The events the members of the three interfaces hand to dispatch.
\* buildNewInterface(state, dispatch).infrastructure.selectInfrastructure(type)
NewInterface_selectInfrastructure(state, type) ==
    ExistingInfrastructureSelected(state.uuid, type)

\* buildNewInterface(state, dispatch).delete()
NewInterface_delete(state) == AppDeleted(state.uuid)

\* buildNotActivatedInterface(state, dispatch).activate()
NotActivatedInterface_activate(state) == AppActivated(state.uuid)

\* buildNotActivatedInterface(state, dispatch).delete()
NotActivatedInterface_delete(state) == AppDeleted(state.uuid)

\* buildActiveInterface(state, dispatch).delete()
ActiveInterface_delete(state) == AppDeleted(state.uuid)

\* buildInterface(state, dispatch).isNew(): the interface it returns, by the
\* name of its builder, or the Error it throws.
isNewInterface(state) ==
    IF ~isNewStateR(state)
    THEN Throw("Error")
    ELSE Return("buildNewInterface")

\* buildInterface(state, dispatch).isNotActivated()
isNotActivatedInterface(state) ==
    IF ~isNotActivatedStateR(state)
    THEN Throw("Error")
    ELSE Return("buildNotActivatedInterface")

\* Mutant of isNotDeletedInterface: the last branch is taken without a test,
\* and nothing is thrown.
isNotDeletedInterfaceMutC19(state) ==
    IF isNewStateR(state)
    THEN Return("buildNewInterface")
    ELSE IF isNotActivatedStateR(state)
    THEN Return("buildNotActivatedInterface")
    ELSE Return("buildActiveInterface")

\* buildInterface(state, dispatch).isNotDeleted()
isNotDeletedInterface(state) ==
    IF isNewStateR(state)
    THEN Return("buildNewInterface")
    ELSE IF isNotActivatedStateR(state)
    THEN Return("buildNotActivatedInterface")
    ELSE IF isActiveStateR(state)
    THEN Return("buildActiveInterface")
    ELSE Throw("Error")

\* The event delete() of the named interface hands to dispatch.
Interface_delete(interface, state) ==
    CASE interface = "buildNewInterface" -> NewInterface_delete(state)
      [] interface = "buildNotActivatedInterface" -> NotActivatedInterface_delete(state)
      [] interface = "buildActiveInterface" -> ActiveInterface_delete(state)

\* The receiver a function runs with.
NoReceiver == [bound |-> FALSE]
Receiver(root) == [bound |-> TRUE, _state |-> root]

\* The receiver dispatch runs with when an interface member calls it: the
\* Root hands its method over as the value this.dispatch, and the member
\* calls that value as a plain function, so there is none.
DispatchReceiver(root) == NoReceiver

\* Root.dispatch(event) run with the given receiver: reading this._state
\* without a receiver is a TypeError; with one, the outcome is the new _state.
dispatch(this, event) ==
    IF ~this.bound
    THEN Throw("TypeError")
    ELSE IF reduceThrows(this._state, event)
    THEN Throw("TypeError")
    ELSE Return(reduce(this._state, event))

\* What a method of the Root did: whether it threw and what, the events it
\* handed to dispatch, and the _state it left.
RootOutcome(state, interface, event) ==
    IF interface.threw
    THEN [threw |-> TRUE, error |-> interface.error,
          dispatched |-> <<>>, _state |-> state]
    ELSE LET done == dispatch(DispatchReceiver(state), event)
         IN  IF done.threw
             THEN [threw |-> TRUE, error |-> done.error,
                   dispatched |-> <<event>>, _state |-> state]
             ELSE [threw |-> FALSE, error |-> Undefined,
                   dispatched |-> <<event>>, _state |-> done.value]

\* new Root(..).selectInfrastructure(type), with _state = state
Root_selectInfrastructure(state, type) ==
    RootOutcome(state, isNewInterface(state),
                NewInterface_selectInfrastructure(state, type))

\* new Root(..).activate(), with _state = state
Root_activate(state) ==
    RootOutcome(state, isNotActivatedInterface(state),
                NotActivatedInterface_activate(state))

\* new Root(..).delete(), with _state = state
Root_delete(state) ==
    LET interface == isNotDeletedInterface(state)
    IN  RootOutcome(state, interface,
                    IF interface.threw
                    THEN Undefined
                    ELSE Interface_delete(interface.value, state))

(* ------ typestate entity without reducer: src/src/poc-reducer.ts ------- *)

buildDeletedV(state) == state

\* Mutant of buildActiveV: the members of buildNotActivated, copied.
buildActiveVMutC4(state) ==
    Override(state, "methods",
             [activate |-> "buildNotActivated", delete |-> "buildNotActivated"])

buildActiveV(state) == Override(state, "methods", [delete |-> "buildActive"])

buildNotActivatedV(state) ==
    Override(state, "methods",
             [activate |-> "buildNotActivated", delete |-> "buildNotActivated"])

buildNewV(state) ==
    Override(state, "methods",
             [selectInfrastructure |-> "buildNew", delete |-> "buildNew"])

\* buildNew(state).selectInfrastructure(type)
New_selectInfrastructureV(state, type) ==
    Return(buildNotActivatedV(
        Override(Override(state, "dispatchedEvents",
                          <<ExistingInfrastructureSelected(state.uuid, type)>>),
                 "infrastructure", [status |-> "Selected", type |-> type])))

\* buildNew(state).delete()
New_deleteV(state) ==
    Return(buildDeletedV(
        Override(Override(state, "dispatchedEvents", <<AppDeleted(state.uuid)>>),
                 "status", "Deleted")))

\* Mutant of NotActivated_activateV: the event is appended to the events the
\* source variant carries.
NotActivated_activateVMutC13(state) ==
    Return(buildActiveV(
        Override(Override(state, "dispatchedEvents",
                          Append(state.dispatchedEvents, AppActivated(state.uuid))),
                 "status", "Active")))

\* buildNotActivated(state).activate()
NotActivated_activateV(state) ==
    Return(buildActiveV(
        Override(Override(state, "dispatchedEvents", <<AppActivated(state.uuid)>>),
                 "status", "Active")))

\* buildNotActivated(state).delete()
NotActivated_deleteV(state) ==
    Return(buildDeletedV(
        Override(Override(state, "dispatchedEvents", <<AppDeleted(state.uuid)>>),
                 "status", "Deleted")))

\* buildActive(state).delete()
Active_deleteV(state) ==
    Return(buildDeletedV(
        Override(Override(state, "dispatchedEvents", <<AppDeleted(state.uuid)>>),
                 "status", "Deleted")))

mapDbStateV(dbState) ==
    IF dbState.status = "New" /\ dbState.infrastructureStatus = "NotSelected"
    THEN buildNewV([dispatchedEvents |-> <<>>,
                    uuid |-> dbState.uuid,
                    status |-> dbState.status,
                    infrastructure |-> [status |-> dbState.infrastructureStatus]])
    ELSE IF /\ dbState.status = "New"
            /\ dbState.infrastructureStatus = "Selected"
            /\ Truthy(dbState.infrastructureProvider)
    THEN buildNotActivatedV([dispatchedEvents |-> <<>>,
                             uuid |-> dbState.uuid,
                             status |-> dbState.status,
                             infrastructure |-> [status |-> dbState.infrastructureStatus,
                                                 type |-> dbState.infrastructureProvider]])
    ELSE IF /\ dbState.status = "Active"
            /\ dbState.infrastructureStatus = "Selected"
            /\ Truthy(dbState.infrastructureProvider)
    THEN buildActiveV([dispatchedEvents |-> <<>>,
                       uuid |-> dbState.uuid,
                       status |-> dbState.status,
                       infrastructure |-> [status |-> dbState.infrastructureStatus,
                                           type |-> dbState.infrastructureProvider]])
    ELSE IF /\ dbState.status = "Deleted"
            /\ dbState.infrastructureStatus = "Selected"
            /\ Truthy(dbState.infrastructureProvider)
    THEN buildDeletedV([dispatchedEvents |-> <<>>,
                        uuid |-> dbState.uuid,
                        status |-> dbState.status,
                        infrastructure |-> [status |-> dbState.infrastructureStatus,
                                            type |-> dbState.infrastructureProvider]])
    ELSE IF /\ dbState.status = "Deleted"
            /\ dbState.infrastructureStatus = "NotSelected"
    THEN buildDeletedV([dispatchedEvents |-> <<>>,
                        uuid |-> dbState.uuid,
                        status |-> dbState.status,
                        infrastructure |-> [status |-> dbState.infrastructureStatus]])
    ELSE [dispatchedEvents |-> <<>>,
          uuid |-> dbState.uuid,
          status |-> "Corrupted"]

(* ------------------------------- state --------------------------------- *)

VARIABLES
    db,          \* the persisted DbState the snapshots and entities are built from
    state,       \* part_000: the AppState folded with apply
    lastApply,   \* part_000: the last call of apply (its inputs and outcome)
    rootState,   \* poc-reducer.ts: the State folded with reduce (Root._state)
    lastReduce,  \* poc-reducer.ts: the last call of reduce
    app,         \* part_000: the typestate entity the caller holds
    lastCall,    \* part_000: the last operation called on an entity
    appV,        \* poc-reducer.ts 379-622: the typestate entity the caller holds
    lastCallV,   \* poc-reducer.ts 379-622: the last operation called on an entity
    chainV,      \* poc-reducer.ts 379-622: the calls that returned, in order
    lastRoot,    \* poc-reducer.ts: the last method called on the Root
    held,        \* part_000: the entity each of several callers holds
    called       \* part_000: the last operation each of these callers called

vars ==
    <<db, state, lastApply, rootState, lastReduce, app, lastCall, appV, lastCallV,
      chainV, lastRoot, held, called>>

\* No call has been made yet.
NoCall == [done |-> FALSE]

Init ==
    /\ db \in DbStates
    /\ state = Snapshot(mapDbState(db))
    /\ lastApply = NoCall
    /\ rootState = mapNewState(db)
    /\ lastReduce = NoCall
    /\ app = mapDbState(db)
    /\ lastCall = NoCall
    /\ appV = mapDbStateV(db)
    /\ lastCallV = NoCall
    /\ chainV = <<>>
    /\ lastRoot = NoCall
    /\ held = [c \in Callers |-> mapDbState(db)]
    /\ called = [c \in Callers |-> NoCall]

(* ------------------------ folding the reducers ------------------------- *)

\* state = apply(state, event)
Apply(event) ==
    /\ IF applyThrows(state, event)
       THEN /\ state' = state
            /\ lastApply' = [done |-> TRUE, pre |-> state, event |-> event,
                             threw |-> TRUE]
       ELSE /\ state' = apply(state, event)
            /\ lastApply' = [done |-> TRUE, pre |-> state, event |-> event,
                             threw |-> FALSE]
    /\ UNCHANGED <<db, rootState, lastReduce, app, lastCall, appV, lastCallV, chainV, lastRoot, held, called>>

\* rootState = reduce(rootState, event)
Reduce(event) ==
    /\ IF reduceThrows(rootState, event)
       THEN /\ rootState' = rootState
            /\ lastReduce' = [done |-> TRUE, pre |-> rootState, event |-> event,
                              threw |-> TRUE]
       ELSE /\ rootState' = reduce(rootState, event)
            /\ lastReduce' = [done |-> TRUE, pre |-> rootState, event |-> event,
                              threw |-> FALSE]
    /\ UNCHANGED <<db, state, lastApply, app, lastCall, appV, lastCallV, chainV, lastRoot, held, called>>

NextApply == \E event \in AppDomainEvent : Apply(event)

NextReduce == \E event \in AppDomainEvent : Reduce(event)

SpecApply == Init /\ [][NextApply]_vars

SpecReduce == Init /\ [][NextReduce]_vars

\* The same event handed to both reducers:
\* state = apply(state, event) and rootState = reduce(rootState, event)
Replay(event) ==
    /\ state' = IF applyThrows(state, event) THEN state ELSE apply(state, event)
    /\ lastApply' = [done |-> TRUE, pre |-> state, event |-> event,
                     threw |-> applyThrows(state, event)]
    /\ rootState' = IF reduceThrows(rootState, event)
                    THEN rootState
                    ELSE reduce(rootState, event)
    /\ lastReduce' = [done |-> TRUE, pre |-> rootState, event |-> event,
                      threw |-> reduceThrows(rootState, event)]
    /\ UNCHANGED <<db, app, lastCall, appV, lastCallV, chainV, lastRoot, held, called>>

NextReplay == \E event \in AppDomainEvent : Replay(event)

SpecReplay == Init /\ [][NextReplay]_vars

(* ------------------- methods of the Root ------------------------------- *)

\* What the last call of a method of the Root was and did.
RootCall(op, args, pre, result) ==
    [done |-> TRUE, op |-> op, args |-> args, pre |-> pre,
     threw |-> result.threw, error |-> result.error,
     dispatched |-> result.dispatched]

\* root.selectInfrastructure(type)
RootSelectInfrastructure(type) ==
    /\ LET result == Root_selectInfrastructure(rootState, type)
       IN  /\ rootState' = result._state
           /\ lastRoot' = RootCall("selectInfrastructure", <<type>>, rootState, result)
    /\ UNCHANGED <<db, state, lastApply, lastReduce, app, lastCall, appV,
                   lastCallV, chainV, held, called>>

\* root.activate()
RootActivate ==
    /\ LET result == Root_activate(rootState)
       IN  /\ rootState' = result._state
           /\ lastRoot' = RootCall("activate", <<>>, rootState, result)
    /\ UNCHANGED <<db, state, lastApply, lastReduce, app, lastCall, appV,
                   lastCallV, chainV, held, called>>

\* root.delete()
RootDelete ==
    /\ LET result == Root_delete(rootState)
       IN  /\ rootState' = result._state
           /\ lastRoot' = RootCall("delete", <<>>, rootState, result)
    /\ UNCHANGED <<db, state, lastApply, lastReduce, app, lastCall, appV,
                   lastCallV, chainV, held, called>>

NextRoot ==
    \/ \E type \in InfrastructureProvider : RootSelectInfrastructure(type)
    \/ RootActivate
    \/ RootDelete

SpecRoot == Init /\ [][NextRoot]_vars

(* ------------- operations of the entity: part_000 ---------------------- *)

\* The call v.delete(), dispatched to the closure v carries.
callDelete(v) ==
    CASE v.methods.delete = "buildNew" -> New_delete(Fields(v))
      [] v.methods.delete = "buildNotActivated" -> NotActivated_delete(Fields(v))
      [] v.methods.delete = "buildActive" -> Active_delete(Fields(v))

\* What the call v.delete() has computed when it reaches the invariant check.
callDeleteStep(v) ==
    CASE v.methods.delete = "buildNew" -> New_deleteStep(Fields(v))
      [] v.methods.delete = "buildNotActivated" -> NotActivated_deleteStep(Fields(v))
      [] v.methods.delete = "buildActive" -> Active_deleteStep(Fields(v))

\* What the caller holds after a call: the returned entity, or, when the call
\* threw, the entity it had.
Held(v, outcome) == IF outcome.threw THEN v ELSE outcome.value

\* app = app.selectInfrastructure(type)
SelectInfrastructure(type) ==
    /\ "selectInfrastructure" \in Ops(app)
    /\ LET outcome == New_selectInfrastructure(Fields(app), type)
       IN  /\ app' = Held(app, outcome)
           /\ lastCall' = [done |-> TRUE, op |-> "selectInfrastructure",
                           args |-> <<type>>, receiver |-> app,
                           computed |-> New_selectInfrastructureStep(Fields(app), type),
                           outcome |-> outcome]
    /\ UNCHANGED <<db, state, lastApply, rootState, lastReduce, appV, lastCallV, chainV, lastRoot, held, called>>

\* app = app.activate()
Activate ==
    /\ "activate" \in Ops(app)
    /\ LET outcome == NotActivated_activate(Fields(app))
       IN  /\ app' = Held(app, outcome)
           /\ lastCall' = [done |-> TRUE, op |-> "activate",
                           args |-> <<>>, receiver |-> app,
                           computed |-> NotActivated_activateStep(Fields(app)),
                           outcome |-> outcome]
    /\ UNCHANGED <<db, state, lastApply, rootState, lastReduce, appV, lastCallV, chainV, lastRoot, held, called>>

\* app = app.delete()
Delete ==
    /\ "delete" \in Ops(app)
    /\ LET outcome == callDelete(app)
       IN  /\ app' = Held(app, outcome)
           /\ lastCall' = [done |-> TRUE, op |-> "delete",
                           args |-> <<>>, receiver |-> app,
                           computed |-> callDeleteStep(app),
                           outcome |-> outcome]
    /\ UNCHANGED <<db, state, lastApply, rootState, lastReduce, appV, lastCallV, chainV, lastRoot, held, called>>

NextEntity ==
    \/ \E type \in InfrastructureProvider : SelectInfrastructure(type)
    \/ Activate
    \/ Delete

SpecEntity == Init /\ [][NextEntity]_vars

(* ------ several callers of the entity of part_000, one DbState -------- *)

\* Caller c: withAppContext(mapDbState(getDbApp()), app => app.selectInfrastructure(type))
CallerSelectInfrastructure(c, type) ==
    /\ "selectInfrastructure" \in Ops(held[c])
    /\ LET outcome == New_selectInfrastructure(Fields(held[c]), type)
       IN  /\ held' = [held EXCEPT ![c] = Held(held[c], outcome)]
           /\ called' = [called EXCEPT ![c] =
                            [done |-> TRUE, op |-> "selectInfrastructure",
                             args |-> <<type>>, receiver |-> held[c],
                             outcome |-> outcome]]
    /\ UNCHANGED <<db, state, lastApply, rootState, lastReduce, app, lastCall,
                   appV, lastCallV, chainV, lastRoot>>

\* Caller c: withAppContext(mapDbState(getDbApp()), app => app.activate())
CallerActivate(c) ==
    /\ "activate" \in Ops(held[c])
    /\ LET outcome == NotActivated_activate(Fields(held[c]))
       IN  /\ held' = [held EXCEPT ![c] = Held(held[c], outcome)]
           /\ called' = [called EXCEPT ![c] =
                            [done |-> TRUE, op |-> "activate",
                             args |-> <<>>, receiver |-> held[c],
                             outcome |-> outcome]]
    /\ UNCHANGED <<db, state, lastApply, rootState, lastReduce, app, lastCall,
                   appV, lastCallV, chainV, lastRoot>>

\* Caller c: withAppContext(mapDbState(getDbApp()), app => app.delete())
CallerDelete(c) ==
    /\ "delete" \in Ops(held[c])
    /\ LET outcome == callDelete(held[c])
       IN  /\ held' = [held EXCEPT ![c] = Held(held[c], outcome)]
           /\ called' = [called EXCEPT ![c] =
                            [done |-> TRUE, op |-> "delete",
                             args |-> <<>>, receiver |-> held[c],
                             outcome |-> outcome]]
    /\ UNCHANGED <<db, state, lastApply, rootState, lastReduce, app, lastCall,
                   appV, lastCallV, chainV, lastRoot>>

NextCallers ==
    \/ \E c \in Callers, type \in InfrastructureProvider :
           CallerSelectInfrastructure(c, type)
    \/ \E c \in Callers : CallerActivate(c)
    \/ \E c \in Callers : CallerDelete(c)

SpecCallers == Init /\ [][NextCallers]_vars

(* ------- operations of the entity: poc-reducer.ts 379-622 -------------- *)

callDeleteV(v) ==
    CASE v.methods.delete = "buildNew" -> New_deleteV(Fields(v))
      [] v.methods.delete = "buildNotActivated" -> NotActivated_deleteV(Fields(v))
      [] v.methods.delete = "buildActive" -> Active_deleteV(Fields(v))

\* The calls that returned so far, with the call just made when it returned.
Chained(chain, op, args, outcome) ==
    IF outcome.threw
    THEN chain
    ELSE Append(chain, [op |-> op, args |-> args, value |-> outcome.value])

\* appV = appV.selectInfrastructure(type)
SelectInfrastructureV(type) ==
    /\ "selectInfrastructure" \in Ops(appV)
    /\ LET outcome == New_selectInfrastructureV(Fields(appV), type)
       IN  /\ appV' = Held(appV, outcome)
           /\ lastCallV' = [done |-> TRUE, op |-> "selectInfrastructure",
                            args |-> <<type>>, receiver |-> appV, outcome |-> outcome]
           /\ chainV' = Chained(chainV, "selectInfrastructure", <<type>>, outcome)
    /\ UNCHANGED <<db, state, lastApply, rootState, lastReduce, app, lastCall, lastRoot, held, called>>

\* appV = appV.activate()
ActivateV ==
    /\ "activate" \in Ops(appV)
    /\ LET outcome == NotActivated_activateV(Fields(appV))
       IN  /\ appV' = Held(appV, outcome)
           /\ lastCallV' = [done |-> TRUE, op |-> "activate",
                            args |-> <<>>, receiver |-> appV, outcome |-> outcome]
           /\ chainV' = Chained(chainV, "activate", <<>>, outcome)
    /\ UNCHANGED <<db, state, lastApply, rootState, lastReduce, app, lastCall, lastRoot, held, called>>

\* appV = appV.delete()
DeleteV ==
    /\ "delete" \in Ops(appV)
    /\ LET outcome == callDeleteV(appV)
       IN  /\ appV' = Held(appV, outcome)
           /\ lastCallV' = [done |-> TRUE, op |-> "delete",
                            args |-> <<>>, receiver |-> appV, outcome |-> outcome]
           /\ chainV' = Chained(chainV, "delete", <<>>, outcome)
    /\ UNCHANGED <<db, state, lastApply, rootState, lastReduce, app, lastCall, lastRoot, held, called>>

NextEntityV ==
    \/ \E type \in InfrastructureProvider : SelectInfrastructureV(type)
    \/ ActivateV
    \/ DeleteV

SpecEntityV == Init /\ [][NextEntityV]_vars

(* ----------------- both typestate entities, side by side -------------- *)

\* Callers drive the entity of part_000 and the entity of poc-reducer.ts
\* 379-622, both reconstructed from the same DbState.
NextEntities ==
    \/ NextEntity
    \/ NextEntityV

SpecEntities == Init /\ [][NextEntities]_vars

(* -------- reducer and both typestate entities, side by side ----------- *)

\* The event log is folded by apply while callers drive the entity of
\* part_000 and the entity of poc-reducer.ts 379-622, all reconstructed from
\* the same DbState.
NextLifecycle ==
    \/ NextApply
    \/ NextEntity
    \/ NextEntityV

SpecLifecycle == Init /\ [][NextLifecycle]_vars

(* ------------- persistence collaborator (not part of src/) ------------- *)

\* The DbState a snapshot is persisted as: uuid, status, infrastructureStatus,
\* and infrastructureProvider present iff the infrastructure is Selected.
persist(s) ==
    LET infrastructureStatus ==
            IF HasInfrastructure(s) THEN s.infrastructure.status ELSE Undefined
    IN  [uuid |-> s.uuid,
         status |-> s.status,
         infrastructureStatus |-> infrastructureStatus,
         infrastructureProvider |->
             IF infrastructureStatus = "Selected"
             THEN s.infrastructure.type
             ELSE Undefined]

(* ============================== claims ================================= *)

\* The snapshot s with its status replaced and nothing else changed.
WithStatus(s, status) == [k \in DOMAIN s |-> IF k = "status" THEN status ELSE s[k]]

\* s has status New and the given infrastructure status.
IsNewWith(s, infrastructureStatus) ==
    /\ s.status = "New"
    /\ HasInfrastructure(s)
    /\ s.infrastructure.status = infrastructureStatus

\* The event e is illegal for the snapshot s.
IllegalFor(s, e) ==
    \/ e.type = "ExistingInfrastructureSelected" /\ ~IsNewWith(s, "NotSelected")
    \/ e.type = "AppActivated" /\ ~IsNewWith(s, "Selected")
    \/ e.type = "AppDeleted" /\ s.status = "Deleted"

\* C1: apply never throws, and an event that is illegal for the snapshot it
\* is applied to yields the same snapshot with status Corrupted (uuid and
\* infrastructure, when present, unchanged).
C1_IllegalEventCorrupts ==
    lastApply.done =>
        /\ ~lastApply.threw
        /\ IllegalFor(lastApply.pre, lastApply.event) =>
              /\ state.status = "Corrupted"
              /\ state = WithStatus(lastApply.pre, "Corrupted")

\* C1 witness: ExistingInfrastructureSelected{AWS} applied to
\* (Active, Selected(AZURE)) gave (Corrupted, Selected(AZURE)).
C1_Witness ==
    /\ lastApply.done
    /\ lastApply.event.type = "ExistingInfrastructureSelected"
    /\ lastApply.event.payload.infrastructureProvider = "AWS"
    /\ lastApply.pre.status = "Active"
    /\ lastApply.pre.infrastructure = [status |-> "Selected", type |-> "AZURE"]
    /\ state.status = "Corrupted"
    /\ state.infrastructure = [status |-> "Selected", type |-> "AZURE"]

\* C2: on every legal (snapshot, event) pair apply gives the result of the
\* transition table: ExistingInfrastructureSelected{p} on (New, NotSelected)
\* gives (New, Selected{p}); AppActivated on (New, Selected{p}) gives
\* (Active, Selected{p}); AppDeleted on status New or Active gives status
\* Deleted with the infrastructure unchanged.
C2_LegalTransitions ==
    lastApply.done =>
        LET s == lastApply.pre
            e == lastApply.event
        IN  /\ (e.type = "ExistingInfrastructureSelected" /\ IsNewWith(s, "NotSelected")) =>
                  state = [uuid |-> s.uuid,
                           status |-> "New",
                           infrastructure |->
                               [status |-> "Selected",
                                type |-> e.payload.infrastructureProvider]]
            /\ (e.type = "AppActivated" /\ IsNewWith(s, "Selected")) =>
                  state = [uuid |-> s.uuid,
                           status |-> "Active",
                           infrastructure |-> s.infrastructure]
            /\ (e.type = "AppDeleted" /\ s.status \in {"New", "Active"}) =>
                  state = [uuid |-> s.uuid,
                           status |-> "Deleted",
                           infrastructure |-> s.infrastructure]

\* C2 witness: AppDeleted applied to (Active, Selected(AWS)) gave
\* (Deleted, Selected(AWS)).
C2_Witness ==
    /\ lastApply.done
    /\ lastApply.event.type = "AppDeleted"
    /\ lastApply.pre.status = "Active"
    /\ lastApply.pre.infrastructure = [status |-> "Selected", type |-> "AWS"]
    /\ state.status = "Deleted"
    /\ state.infrastructure = [status |-> "Selected", type |-> "AWS"]

\* C3: under reduce, AppDeleted applied to a state with status New or Active
\* yields status Deleted with the infrastructure unchanged, and AppDeleted
\* applied to a Deleted state yields status Corrupted.
C3_ReduceDelete ==
    (lastReduce.done /\ lastReduce.event.type = "AppDeleted") =>
        /\ lastReduce.pre.status \in {"New", "Active"} =>
              /\ rootState.status = "Deleted"
              /\ rootState.infrastructure = lastReduce.pre.infrastructure
        /\ lastReduce.pre.status = "Deleted" => rootState.status = "Corrupted"

\* C6: under apply, once the snapshot has status Corrupted every later
\* snapshot has status Corrupted, whatever event is applied.
C6_CorruptedTerminal ==
    [][state.status = "Corrupted" => state'.status = "Corrupted"]_vars

\* C6 witness: AppCreated was applied to a Corrupted snapshot, which stayed
\* Corrupted.
C6_Witness ==
    /\ lastApply.done
    /\ lastApply.pre.status = "Corrupted"
    /\ lastApply.event.type = "AppCreated"
    /\ state.status = "Corrupted"

\* C7: under reduce, every event of the catalog applied to a state with
\* status Corrupted yields a state with status Corrupted.
C7_CorruptedTerminalReduce ==
    (lastReduce.done /\ lastReduce.pre.status = "Corrupted") =>
        rootState.status = "Corrupted"

\* The variant of the typestate table an entity's snapshot belongs to.
VariantOf(v) ==
    CASE v.status = "New" /\ v.infrastructure.status = "NotSelected" -> "New"
      [] v.status = "New" /\ v.infrastructure.status = "Selected" -> "NotActivated"
      [] v.status = "Active" -> "Active"
      [] v.status = "Deleted" -> "Deleted"
      [] OTHER -> "Corrupted"

\* The operations the typestate table lists for a variant.
TableOps(variant) ==
    CASE variant = "New" -> {"selectInfrastructure", "delete"}
      [] variant = "NotActivated" -> {"activate", "delete"}
      [] variant = "Active" -> {"delete"}
      [] OTHER -> {}

\* The chain selectInfrastructure(AWS), activate(), delete() has been made.
ChainV_SelectActivateDelete ==
    /\ Len(chainV) = 3
    /\ chainV[1].op = "selectInfrastructure" /\ chainV[1].args = <<"AWS">>
    /\ chainV[2].op = "activate"
    /\ chainV[3].op = "delete"

\* C4: in the entity of poc-reducer.ts 437-522 each variant exposes exactly
\* the operations of the table, no call throws, and each operation returns
\* the listed variant: selectInfrastructure(p) on New gives (New,
\* Selected{p}), activate on NotActivated gives Active with the same
\* infrastructure, delete on New, NotActivated or Active gives Deleted with
\* the same infrastructure; the chain selectInfrastructure(AWS), activate(),
\* delete() passes through (New, Selected(AWS)), (Active, Selected(AWS)) and
\* (Deleted, Selected(AWS)).
C4_TypestateTableV ==
    /\ Ops(appV) = TableOps(VariantOf(appV))
    /\ lastCallV.done =>
          LET r == lastCallV.receiver
          IN  /\ ~lastCallV.outcome.threw
              /\ appV = lastCallV.outcome.value
              /\ lastCallV.op = "selectInfrastructure" =>
                    /\ VariantOf(r) = "New"
                    /\ VariantOf(appV) = "NotActivated"
                    /\ Snapshot(appV) =
                          [uuid |-> r.uuid,
                           status |-> "New",
                           infrastructure |->
                               [status |-> "Selected", type |-> lastCallV.args[1]]]
              /\ lastCallV.op = "activate" =>
                    /\ VariantOf(r) = "NotActivated"
                    /\ VariantOf(appV) = "Active"
                    /\ Snapshot(appV) =
                          [uuid |-> r.uuid,
                           status |-> "Active",
                           infrastructure |-> r.infrastructure]
              /\ lastCallV.op = "delete" =>
                    /\ VariantOf(r) \in {"New", "NotActivated", "Active"}
                    /\ VariantOf(appV) = "Deleted"
                    /\ Snapshot(appV) =
                          [uuid |-> r.uuid,
                           status |-> "Deleted",
                           infrastructure |-> r.infrastructure]
    /\ ChainV_SelectActivateDelete =>
          LET aws == [status |-> "Selected", type |-> "AWS"]
          IN  /\ Snapshot(chainV[1].value) =
                    [uuid |-> db.uuid, status |-> "New", infrastructure |-> aws]
              /\ Snapshot(chainV[2].value) =
                    [uuid |-> db.uuid, status |-> "Active", infrastructure |-> aws]
              /\ Snapshot(chainV[3].value) =
                    [uuid |-> db.uuid, status |-> "Deleted", infrastructure |-> aws]
              /\ appV = chainV[3].value

\* C4 witness: the chain selectInfrastructure(AWS), activate(), delete() from
\* a New entity ended in (Deleted, Selected(AWS)), which exposes nothing.
C4_Witness ==
    /\ ChainV_SelectActivateDelete
    /\ db.status = "New" /\ db.infrastructureStatus = "NotSelected"
    /\ appV.status = "Deleted"
    /\ appV.infrastructure = [status |-> "Selected", type |-> "AWS"]
    /\ Ops(appV) = {}

\* The variant the typestate table lists as the result of an operation.
ResultVariant(op) ==
    CASE op = "selectInfrastructure" -> "NotActivated"
      [] op = "activate" -> "Active"
      [] op = "delete" -> "Deleted"

\* C5: in the entity of part_000, every operation an entity obtained from
\* mapDbState exposes completes without throwing (its invariant assertion
\* does not fail on the snapshot it computed) and returns the result variant.
C5_OperationsComplete ==
    lastCall.done =>
        /\ ~lastCall.outcome.threw
        /\ VariantOf(app) = ResultVariant(lastCall.op)

\* The persisted snapshot d carries a provider.
HasProvider(d) == d.infrastructureProvider \in InfrastructureProvider

\* The entity v is what the classification of reconstruction gives for the
\* persisted snapshot d.
ClassifiedAs(v, d) ==
    /\ v.dispatchedEvents = <<>>
    /\ v.uuid = d.uuid
    /\ (d.status = "New" /\ d.infrastructureStatus = "NotSelected") =>
          /\ Snapshot(v) = [uuid |-> d.uuid,
                            status |-> "New",
                            infrastructure |-> [status |-> "NotSelected"]]
          /\ Ops(v) = TableOps("New")
    /\ (d.status = "New" /\ d.infrastructureStatus = "Selected" /\ HasProvider(d)) =>
          /\ Snapshot(v) = [uuid |-> d.uuid,
                            status |-> "New",
                            infrastructure |->
                                [status |-> "Selected",
                                 type |-> d.infrastructureProvider]]
          /\ Ops(v) = TableOps("NotActivated")
    /\ (d.status = "Active" /\ d.infrastructureStatus = "Selected" /\ HasProvider(d)) =>
          /\ Snapshot(v) = [uuid |-> d.uuid,
                            status |-> "Active",
                            infrastructure |->
                                [status |-> "Selected",
                                 type |-> d.infrastructureProvider]]
          /\ Ops(v) = TableOps("Active")
    /\ (\/ d.status = "Corrupted"
        \/ d.status = "Active" /\ d.infrastructureStatus = "NotSelected") =>
          /\ v.status = "Corrupted"
          /\ Ops(v) = {}

FoldFromNew == db.status = "New" /\ db.infrastructureStatus = "NotSelected"

C11_ReconstructionIdempotent ==
    ~lastCall.done => mapDbState(persist(Snapshot(app))) = app

\* A DbState that is not itself the persisted form of a snapshot (it names a
\* provider although nothing is selected) was reconstructed, and so was a
\* snapshot classified Corrupted.
C11_Witness ==
    /\ ~lastCall.done
    /\ app = mapDbState(db)
    /\ persist(Snapshot(app)) # db
    /\ app.status \in {"New", "Corrupted"}
    /\ mapDbState(persist(Snapshot(app))) = app

\* The data-model invariant of a snapshot: an Active snapshot has a Selected
\* infrastructure with a provider.
DataModelInvariant(s) ==
    s.status = "Active" =>
        /\ HasInfrastructure(s)
        /\ s.infrastructure.status = "Selected"
        /\ "type" \in DOMAIN s.infrastructure
        /\ s.infrastructure.type \in InfrastructureProvider

\* C12: the data-model invariant holds in every reachable state: in every
\* snapshot apply folds to from a reconstructed snapshot, and in every variant
\* mapDbState builds or a chain of typestate operations returns, status Active
\* implies a Selected infrastructure with a provider.
C12_DataModelInvariant ==
    /\ DataModelInvariant(state)
    /\ DataModelInvariant(app)
    /\ DataModelInvariant(appV)

\* apply has just activated a snapshot, and the typestate entity has been
\* activated by its own operation.
C12_Witness ==
    /\ lastApply.done
    /\ lastApply.event.type = "AppActivated"
    /\ lastApply.pre.status = "New"
    /\ state.status = "Active"
    /\ lastCallV.done
    /\ lastCallV.op = "activate"
    /\ appV.status = "Active"

\* The event an operation called on a variant with the given uuid stands for.
EventOf(op, args, uuid) ==
    CASE op = "selectInfrastructure" -> ExistingInfrastructureSelected(uuid, args[1])
      [] op = "activate" -> AppActivated(uuid)
      [] op = "delete" -> AppDeleted(uuid)

\* C13: every variant returned by a typestate operation carries exactly one
\* event, the one matching the operation with the uuid of the source; every
\* variant returned by mapDbState carries none; events do not accumulate along
\* a chain: each returned variant carries only the event of its own call.
C13_OneEventPerOperation ==
    /\ ~lastCall.done => app.dispatchedEvents = <<>>
    /\ lastCall.done =>
          /\ lastCall.computed.event =
                 EventOf(lastCall.op, lastCall.args, lastCall.receiver.uuid)
          /\ ~lastCall.outcome.threw =>
                 lastCall.outcome.value.dispatchedEvents = <<lastCall.computed.event>>
    /\ ~lastCallV.done => appV.dispatchedEvents = <<>>
    /\ lastCallV.done =>
          appV.dispatchedEvents =
              <<EventOf(lastCallV.op, lastCallV.args, lastCallV.receiver.uuid)>>
    /\ \A i \in 1..Len(chainV) :
          chainV[i].value.dispatchedEvents =
              <<EventOf(chainV[i].op, chainV[i].args, db.uuid)>>

\* A chain of three operations has returned: the final variant carries the
\* AppDeleted event alone.
C13_Witness ==
    /\ Len(chainV) = 3
    /\ lastCallV.done
    /\ lastCallV.op = "delete"
    /\ Len(lastCallV.receiver.dispatchedEvents) = 1
    /\ appV.dispatchedEvents = <<AppDeleted(db.uuid)>>

\* C14: BuildRequested never changes a snapshot, whatever its status: apply
\* and reduce both return the snapshot they were given; apply also returns it
\* unchanged for AppCreated.
C14_BuildRequestedIgnored ==
    /\ (/\ lastApply.done
        /\ lastApply.event.type \in {"BuildRequested", "AppCreated"})
           => ~lastApply.threw /\ state = lastApply.pre
    /\ (/\ lastReduce.done
        /\ lastReduce.event.type = "BuildRequested")
           => ~lastReduce.threw /\ rootState = lastReduce.pre

\* BuildRequested was handed to apply in a Deleted snapshot and to reduce in
\* a Corrupted one.
C14_Witness ==
    /\ lastApply.done
    /\ lastApply.event.type = "BuildRequested"
    /\ lastApply.pre.status = "Deleted"
    /\ state = lastApply.pre
    /\ lastReduce.done
    /\ lastReduce.event.type = "BuildRequested"
    /\ lastReduce.pre.status = "Corrupted"
    /\ rootState = lastReduce.pre

\* C16, as claimed: the uuid is stable: apply returns a snapshot with the uuid
\* of the snapshot it was given, whatever uuid the event carries, and every
\* typestate operation returns a variant with the uuid of its source, carrying
\* an event with that uuid.
C16_UuidStable ==
    /\ lastApply.done => state.uuid = lastApply.pre.uuid
    /\ lastCall.done =>
          /\ ~lastCall.outcome.threw
          /\ lastCall.outcome.value.uuid = lastCall.receiver.uuid
          /\ Len(lastCall.outcome.value.dispatchedEvents) = 1
          /\ lastCall.outcome.value.dispatchedEvents[1].payload.uuid =
                 lastCall.receiver.uuid

\* The ExistingInfrastructureSelected events selectInfrastructure has built,
\* each with the provider it was called with: in part_000 the event of the
\* last call, in poc-reducer.ts 379-622 the event the returned variant carries.
SelectedEvents ==
    (IF lastCall.done /\ lastCall.op = "selectInfrastructure"
     THEN {[event |-> lastCall.computed.event, type |-> lastCall.args[1],
            uuid |-> lastCall.receiver.uuid]}
     ELSE {})
    \cup
    (IF lastCallV.done /\ lastCallV.op = "selectInfrastructure"
     THEN {[event |-> appV.dispatchedEvents[1], type |-> lastCallV.args[1],
            uuid |-> lastCallV.receiver.uuid]}
     ELSE {})

\* C17: every ExistingInfrastructureSelected event of
\* selectInfrastructure carries the chosen provider, a region code when the
\* provider is AWS, and no region when it is AZURE.
C17_RegionWhenAws ==
    \A e \in SelectedEvents :
        /\ e.event.type = "ExistingInfrastructureSelected"
        /\ e.event.payload.infrastructureProvider = e.type
        /\ e.type = "AWS" =>
              /\ "region" \in DOMAIN e.event.payload
              /\ e.event.payload.region \in AwsRegion
        /\ e.type = "AZURE" => "region" \notin DOMAIN e.event.payload

\* C20: the typestate entity of part_000 refines the reducer: the next
\* snapshot an operation computes, before the invariant check, is the one
\* apply computes from the source snapshot and the event the operation
\* constructed; and a returned variant wraps that snapshot and that event, so
\* folding apply over the emitted events follows the chain.
C20_EntityRefinesReducer ==
    lastCall.done =>
        /\ ~applyThrows(Snapshot(lastCall.receiver), lastCall.computed.event)
        /\ Snapshot(lastCall.computed.newState) =
               apply(Snapshot(lastCall.receiver), lastCall.computed.event)
        /\ ~lastCall.outcome.threw =>
               /\ app.dispatchedEvents = <<lastCall.computed.event>>
               /\ Snapshot(app) = Snapshot(lastCall.computed.newState)

\* delete was called on an Active variant and computed a Deleted snapshot.
C20_Witness ==
    /\ lastCall.done
    /\ lastCall.op = "delete"
    /\ lastCall.receiver.status = "Active"
    /\ lastCall.computed.event = AppDeleted(db.uuid)
    /\ lastCall.computed.newState.status = "Deleted"

\* The state the claim names after a legal method of the Root.
RootExpected(op, args, pre) ==
    CASE op = "selectInfrastructure" ->
            Override(pre, "infrastructure", [status |-> "Selected", type |-> args[1]])
      [] op = "activate" -> Override(pre, "status", "Active")
      [] op = "delete" -> Override(pre, "status", "Deleted")

\* Whether the method is legal in the state: selectInfrastructure in
\* (New, NotSelected), activate in (New, Selected), delete in New,
\* NotActivated and Active.
RootLegal(op, pre) ==
    CASE op = "selectInfrastructure" -> isNewStateR(pre)
      [] op = "activate" -> isNotActivatedStateR(pre)
      [] op = "delete" -> pre.status \in {"New", "Active"}

\* C18, as claimed: on a Root, selectInfrastructure(AWS), activate() and
\* delete() called in the states where they are legal complete without
\* throwing and leave (New, Selected(AWS)), then (Active, Selected(AWS)), then
\* (Deleted, Selected(AWS)); delete() in New, NotActivated or Active leaves
\* the Root Deleted.
C18_RootLifecycle ==
    (lastRoot.done /\ RootLegal(lastRoot.op, lastRoot.pre)) =>
        /\ ~lastRoot.threw
        /\ rootState = RootExpected(lastRoot.op, lastRoot.args, lastRoot.pre)

\* C19: a method of the Root called in a state where it is not legal throws,
\* hands no event to dispatch and leaves the state as it was; so a Root that
\* is Deleted or Corrupted stays as it is, whatever is called on it.
C19_IllegalRootCall ==
    lastRoot.done =>
        /\ ~RootLegal(lastRoot.op, lastRoot.pre) =>
              /\ lastRoot.threw
              /\ lastRoot.dispatched = <<>>
              /\ rootState = lastRoot.pre
        /\ lastRoot.pre.status \in {"Deleted", "Corrupted"} =>
              rootState = lastRoot.pre

\* delete() was called on a Deleted Root and threw.
C19_Witness ==
    /\ lastRoot.done
    /\ lastRoot.op = "delete"
    /\ lastRoot.pre.status = "Deleted"
    /\ lastRoot.threw
    /\ lastRoot.error = "Error"
    /\ rootState = lastRoot.pre

\* The names of the fields of an event and of its payload.
EventFields(e) == DOMAIN e \cup DOMAIN e.payload

\* C21, as claimed: two callers that reconstruct from the same persisted
\* (New, NotSelected) snapshot and call, one delete() and the other
\* selectInfrastructure(AWS), both complete; they obtain different next
\* snapshots, and no version or sequence field in the snapshots or in the
\* events tells the two results apart or orders them.
C21_NoConflictDetection ==
    \A c \in Callers, d \in Callers :
        (/\ c # d
         /\ isNew(mapDbState(db))
         /\ called[c].done
         /\ called[c].op = "delete"
         /\ called[d].done
         /\ called[d].op = "selectInfrastructure"
         /\ called[d].args = <<"AWS">>)
        => /\ ~called[c].outcome.threw
           /\ ~called[d].outcome.threw
           /\ Snapshot(held[c]) # Snapshot(held[d])
           /\ {"version", "sequence"} \cap
                  (DOMAIN held[c] \cup DOMAIN held[d]) = {}
           /\ \A e \in {held[c].dispatchedEvents[1], held[d].dispatchedEvents[1]} :
                  {"version", "sequence"} \cap EventFields(e) = {}

\* C22: under apply the lifecycle only moves forward: a Deleted snapshot is
\* never New or Active afterwards (it stays Deleted or becomes Corrupted, which
\* is kept), an Active snapshot is never New afterwards, and a Selected
\* infrastructure is kept as it is by every event, a second
\* ExistingInfrastructureSelected with another provider included.
C22_LifecycleForward ==
    [][/\ state.status \in {"Deleted", "Corrupted"} =>
              state'.status \in {"Deleted", "Corrupted"}
       /\ state.status \in {"Active", "Deleted", "Corrupted"} =>
              state'.status # "New"
       /\ (HasInfrastructure(state) /\ state.infrastructure.status = "Selected") =>
              /\ HasInfrastructure(state')
              /\ state'.infrastructure = state.infrastructure]_vars

\* A second ExistingInfrastructureSelected, naming another provider, was
\* applied to a snapshot with a Selected infrastructure, which was kept.
C22_Witness ==
    /\ lastApply.done
    /\ lastApply.event.type = "ExistingInfrastructureSelected"
    /\ HasInfrastructure(lastApply.pre)
    /\ lastApply.pre.infrastructure.status = "Selected"
    /\ lastApply.event.payload.infrastructureProvider # lastApply.pre.infrastructure.type
    /\ state.infrastructure = lastApply.pre.infrastructure
    /\ state.status = "Corrupted"

\* The place of a variant in the transition graph
\* New -> NotActivated -> Active -> Deleted.
Rank(v) ==
    CASE VariantOf(v) = "New" -> 1
      [] VariantOf(v) = "NotActivated" -> 2
      [] VariantOf(v) = "Active" -> 3
      [] VariantOf(v) = "Deleted" -> 4
      [] OTHER -> 0

\* C23, as claimed: every chain of typestate operations terminates: a chain
\* has at most 3 operations, every operation returns a variant that is not
\* Corrupted and lies further along New -> NotActivated -> Active -> Deleted
\* than the variant it was called on (no cycle), and a chain can be extended
\* by every exposed operation until it ends in the Deleted variant. Stated
\* for the chains of both entities that start from a variant other than
\* Corrupted.
C23_ChainsEndDeleted ==
    /\ Len(chainV) <= 3
    /\ \A i \in 1..Len(chainV) : Rank(chainV[i].value) > 0
    /\ \A i \in 2..Len(chainV) : Rank(chainV[i].value) > Rank(chainV[i - 1].value)
    /\ lastCallV.done =>
          /\ ~lastCallV.outcome.threw
          /\ Rank(appV) > Rank(lastCallV.receiver)
    /\ (Rank(appV) > 0 /\ Ops(appV) = {}) => VariantOf(appV) = "Deleted"
    /\ lastCall.done =>
          /\ ~lastCall.outcome.threw
          /\ Rank(app) > 0
          /\ Rank(app) > Rank(lastCall.receiver)
    /\ (Rank(app) > 0 /\ Ops(app) = {}) => VariantOf(app) = "Deleted"

====
